---- MODULE Spec2Model ----
(***************************************************************************)
(* A model of the per-call orchestration of inboundCalls:                  *)
(*   main.py                       media_stream, the transport receive loop *)
(*   services/stt/deepgram.py      DeepgramTranscriber and its handlers     *)
(*   services/llm/openai_async.py  LargeLanguageModel.run_chat              *)
(*   services/tts/providers/tts_elevenlabs.py  get_audio_from_text          *)
(*                                                                         *)
(* Everything runs on one asyncio event loop: a step of the model is the   *)
(* code a coroutine runs between two suspension points (await).  The       *)
(* coroutines are the receive loop of media_stream and one handler         *)
(* invocation per recognizer event that completes a turn.                  *)
(***************************************************************************)
EXTENDS Integers, Sequences, FiniteSets, TLC

(***************************************************************************)
(* Bounds of the exploration.                                              *)
(***************************************************************************)
MaxStart     == 2   \* 'start' events on one transport connection
MaxMedia     == 4   \* 'media' events of the audio scenario
MaxRecEvents == 2   \* recognizer events of the turn scenario
MaxChunks    == 2   \* chunks the synthesis streams of one run yield
MaxToolCalls == 1   \* tool calls in one engine response
MaxFaults    == 1   \* failures the environment injects in one run
MaxCalls     == 4   \* method calls of the transcriber API scenario
MaxLtCalls   == 4   \* method calls of the latency tracker scenario
MaxClock     == 2   \* last reading (ms) of the clock of the latency tracker scenario

(***************************************************************************)
(* main.py:19                                                              *)
(***************************************************************************)
BUFFER_SIZE == 4 * 160

None == 0

\* Lengths (in bytes) of the decoded payload of a 'media' event.
PayloadLens == {0, 160, 640}

\* Audio bytes are kept as runs: <<[frame |-> f, n |-> n]>> is the n bytes of
\* the payload of the f-th media event.  The code never looks at the value of
\* a byte, only at how many there are.
Payload(f, n) == IF n = 0 THEN <<>> ELSE <<[frame |-> f, n |-> n]>>

RECURSIVE NumBytes(_)
\* len(buffer)
NumBytes(bs) == IF bs = <<>> THEN 0 ELSE bs[1].n + NumBytes(Tail(bs))

IsPrefix(s, t) == Len(s) <= Len(t) /\ SubSeq(t, 1, Len(s)) = s

(***************************************************************************)
(* Text is a sequence of characters.                                       *)
(***************************************************************************)
Segments == { <<>>, <<"a">>, <<"b", ".">> }

\* The Transcript events the recognizer delivers: final ones, and an interim
\* one (interim_results is on).
Transcripts ==
    { [is_final |-> TRUE, sentence |-> s] : s \in Segments }
    \cup { [is_final |-> FALSE, sentence |-> <<"b", ".">>] }

RECURSIVE Join(_)
\* " ".join(transcripts)
Join(ts) ==
    IF ts = <<>> THEN <<>>
    ELSE IF Len(ts) = 1 THEN ts[1]
    ELSE ts[1] \o <<" ">> \o Join(Tail(ts))

\* re.search(r'[.!?]$', sentence): '$' matches at the end of the string and
\* before a newline that ends it.
EndsWithPunct(sentence) ==
    LET n == Len(sentence) IN
    \/ n >= 1 /\ sentence[n] \in {".", "!", "?"}
    \/ n >= 2 /\ sentence[n] = "\n" /\ sentence[n - 1] \in {".", "!", "?"}

VARIABLES
    \* ---- media_stream (main.py:42-111)
    ms_pc,                 \* "recv" | "greeting" | "returned"
    buffer,                \* bytearray
    empty_byte_received,
    transcriber,           \* None or the index of a DeepgramTranscriber in tr
    ws_open,               \* the transport connection is up
    \* ---- objects built on 'start'
    tr,                    \* DeepgramTranscriber objects
    conns,                 \* recognizer connections (dg_connection objects)
    conversation,          \* LargeLanguageModel.conversation, per engine object
    \* ---- coroutines
    hs,                    \* handler invocations of the recognizer events
    greet,                 \* the greeting's get_audio_from_text call
    api_pc,                \* "off", or in the transcriber API scenario "idle" | "connecting",
                           \* or "tracker" in the latency tracker scenario
    api_log,               \* transcriber API scenario: the calls made, in order
    \* ---- environment budget and observation logs
    remaining,             \* events the environment may still deliver
    lastEvent,             \* last transport event media_stream handled
    phase,                 \* "connected" | "active" | "stopped" | "closed", by the events
    nmedia,                \* number of payloads decoded
    received,              \* decoded payload bytes appended to buffer, in order
    sa_bytes,              \* concatenation of the chunks passed to send_audio
    sa_calls,              \* number of send_audio calls
    ws_out,                \* frames sent to the transport, in order
    dispatched,            \* run_chat invocations, in order
    rxlog,                 \* recognizer events delivered, in order
    \* ---- tools/latency.py
    tracker                \* a LatencyTracker, the clock it reads, the calls made on it

msVars   == <<ms_pc, buffer, empty_byte_received, transcriber>>
objVars  == <<tr, conns, conversation>>
coVars   == <<hs, greet>>
apiVars  == <<api_pc, api_log>>
audVars  == <<nmedia, received, sa_bytes, sa_calls>>
turnLog  == <<ws_out, dispatched, rxlog>>
vars == <<ms_pc, buffer, empty_byte_received, transcriber, ws_open, tr, conns,
          conversation, hs, greet, api_pc, api_log, remaining, lastEvent, phase, nmedia,
          received, sa_bytes, sa_calls, ws_out, dispatched, rxlog, tracker>>

(***************************************************************************)
(* DeepgramTranscriber (deepgram.py)                                       *)
(***************************************************************************)
\* DeepgramTranscriber.__init__
NewTranscriber ==
    [dg_connection |-> None, started |-> FALSE, closed |-> FALSE, transcripts |-> <<>>]

\* A connection object as listen.v2.connect returns it; owner is the
\* transcriber whose handlers are registered on it, sent the audio it was
\* sent, keepalives the number of keepalive messages it was sent (no code of
\* deepgram.py sends one).
NewConnection(k) ==
    [owner |-> k, listening |-> FALSE, finish |-> 0, sends |-> 0, sent |-> <<>>,
     keepalives |-> 0]

\* deepgram_connect up to the start of the connection: None when the call
\* returns at once ("socket is already initialized").
ConnectReturnsEarly(t) == t.dg_connection # None /\ t.started

\* deepgram_connect, creation of the connection; o = "fail_create" is
\* listen.v2.connect raising (RuntimeError out of deepgram_connect).
ConnectCreate(k, t, c, o) ==
    IF o = "fail_create" THEN [t |-> t, c |-> c, raised |-> TRUE]
    ELSE [t |-> [t EXCEPT !.dg_connection = Len(c) + 1],
          c |-> Append(c, NewConnection(k)),
          raised |-> FALSE]

\* deepgram_connect, start of the connection: "ok", "already" (the start
\* raises 'already started') or "fail_start" (any other exception, re-raised).
ConnectStart(t, c, o) ==
    IF o = "fail_start" THEN [t |-> t, c |-> c, raised |-> TRUE]
    ELSE [t |-> [t EXCEPT !.started = TRUE],
          c |-> [c EXCEPT ![t.dg_connection].listening = TRUE],
          raised |-> FALSE]

\* deepgram_connect (lines 53-191)
deepgram_connect(k, t, c, o) ==
    IF ConnectReturnsEarly(t) THEN [t |-> t, c |-> c, raised |-> FALSE]
    ELSE LET cc == ConnectCreate(k, t, c, o)
         IN  IF cc.raised THEN cc ELSE ConnectStart(cc.t, cc.c, o)

\* The guard of send_audio.
SendGuard(t) == t.dg_connection # None /\ t.started

\* The chunk reaches the recognizer although the send raised.
send_audio_delivers_failed(t, c, audio_bytes, res) ==
    IF ~(t.dg_connection # None /\ t.started) THEN c
    ELSE [c EXCEPT ![t.dg_connection].sends = @ + 1,
                   ![t.dg_connection].sent = @ \o audio_bytes]

\* send_audio: the connections after the call; res is what the connection's
\* send does ("ok" | "raise").  A raise is caught and the chunk is dropped.
send_audio(t, c, audio_bytes, res) ==
    IF ~SendGuard(t) THEN c
    ELSE IF res = "raise"
         THEN [c EXCEPT ![t.dg_connection].sends = @ + 1]
         ELSE [c EXCEPT ![t.dg_connection].sends = @ + 1,
                        ![t.dg_connection].sent = @ \o audio_bytes]

\* The guard of deepgram_close.
CloseGuard(t) == t.dg_connection # None /\ t.started /\ ~t.closed

\* deepgram_close: the transcriber after the call; res is what finish() does.
\* An exception of finish() is swallowed before the fields are reset.
deepgram_close(t, res) ==
    IF CloseGuard(t) /\ res = "ok"
    THEN [t EXCEPT !.closed = TRUE, !.started = FALSE, !.dg_connection = None]
    ELSE t

\* deepgram_close: the connections after the call.
CloseConns(t, c, res) ==
    IF CloseGuard(t)
    THEN [c EXCEPT ![t.dg_connection].finish = @ + 1,
                   ![t.dg_connection].listening = IF res = "ok" THEN FALSE ELSE @]
    ELSE c

(***************************************************************************)
(* ElevenLabsTTS.get_audio_from_text (tts_elevenlabs.py:23-80)             *)
(***************************************************************************)
SkipKinds == {"empty", "other"}     \* 'if not chunk: continue' and the else branch
\* The two branches that send a media frame: a non-empty bytes chunk, a dict
\* with non-empty chunk['audio'], a dict whose chunk['audio'] is b''.
SendKinds == {"bytes", "dict", "dict_empty"}

\* What the payload of the frame of a chunk carries.
Audio(kind) == IF kind = "dict_empty" THEN "none" ELSE "some"

\* What the loop pulls from the stream between two suspensions: chunks it
\* skips, then a chunk it sends, the end of the stream, or a failure of the
\* backend ("fail": the request or the iteration raises).
PullRuns ==
    { <<x>> : x \in SendKinds \cup {"end", "fail"} }
    \cup { <<s, x>> : s \in SkipKinds, x \in SendKinds \cup {"end", "fail"} }

RunChunks(run) == (Len(run) - 1) + (IF run[Len(run)] \in SendKinds THEN 1 ELSE 0)

\* The outbound frames; by is the handler invocation whose utterance the frame
\* belongs to (0: the greeting), seq the chunk's place in its stream.
MediaFrame(by, seq, kind) ==
    [event |-> "media", by |-> by, seq |-> seq, audio |-> Audio(kind)]
ClearFrame(by) == [event |-> "clear", by |-> by, seq |-> 0, audio |-> "none"]

\* A failure of the backend is reported as success.
TtsPullHidesFailure(by, idx, run, open) ==
    LET term == run[Len(run)]
        n    == idx + RunChunks(run)
    IN  IF term \in SendKinds
        THEN IF open
             THEN [frames |-> <<MediaFrame(by, n, term)>>, idx |-> n, status |-> "await"]
             ELSE [frames |-> <<>>, idx |-> n, status |-> "false"]
        ELSE [frames |-> <<>>, idx |-> n, status |-> "true"]

\* One run of the loop of get_audio_from_text for the utterance of `by`, from
\* chunk idx on: the frames it sends and where it stops: "await" (suspended in
\* ws.send_text), "true" (return True) or "false" (the except branch).
TtsPull(by, idx, run, open) ==
    LET term == run[Len(run)]
        n    == idx + RunChunks(run)
    IN  IF term \in SendKinds
        THEN IF open
             THEN [frames |-> <<MediaFrame(by, n, term)>>, idx |-> n, status |-> "await"]
             ELSE [frames |-> <<>>, idx |-> n, status |-> "false"]
        ELSE [frames |-> <<>>, idx |-> n,
              status |-> IF term = "end" THEN "true" ELSE "false"]

\* The backend fails in this run.
RunFails(run) == run[Len(run)] = "fail"

\* The synthesis stream after the run: it has more to yield ("open"), it is
\* exhausted ("ended"), or the backend raised ("failed").
StreamAfter(run) ==
    LET term == run[Len(run)]
    IN  IF term = "end" THEN "ended" ELSE IF term = "fail" THEN "failed" ELSE "open"

(***************************************************************************)
(* LargeLanguageModel (openai_async.py)                                    *)
(***************************************************************************)
Msg(role, content, by, id, name, ntc) ==
    [role |-> role, content |-> content, by |-> by, tool_call_id |-> id,
     name |-> name, ntc |-> ntc]

\* init_chat: the system message.
SystemMsg == Msg("system", <<>>, 0, 0, "", 0)
\* run_chat, line 113
UserMsg(message, by) == Msg("user", message, by, 0, "", 0)
\* run_chat, line 128: the engine's message that carries the tool calls
ToolCallsMsg(calls, by) == Msg("assistant", <<>>, by, 0, "", Len(calls))
\* run_chat, line 174
AssistantMsg(content, by) == Msg("assistant", content, by, 0, "", 0)

\* What the engine answers with when it answers with text.
Replies == { <<"o", "k">> }

\* The tool calls an engine response may carry: the function it names, whether
\* its arguments parse (json.loads), and whether the calendar operation fails
\* (google_calendar.py catches the failure and returns [] or success: False).
ToolCalls ==
    { [name |-> "check_availability",   args_ok |-> TRUE,  fails |-> FALSE],
      [name |-> "schedule_appointment", args_ok |-> TRUE,  fails |-> TRUE],
      [name |-> "other",                args_ok |-> TRUE,  fails |-> FALSE],
      [name |-> "check_availability",   args_ok |-> FALSE, fails |-> FALSE] }

ToolCallSeqs == UNION { [1..n -> ToolCalls] : n \in 1..MaxToolCalls }

\* run_chat, lines 138-154: the function_response of one tool call
FunctionResponse(call) ==
    IF call.name = "check_availability"
    THEN (IF call.fails THEN <<"[", "]">> ELSE <<"s", "l", "o", "t", "s">>)
    ELSE IF call.name = "schedule_appointment"
    THEN (IF call.fails THEN <<"f", "a", "l", "s", "e">> ELSE <<"t", "r", "u", "e">>)
    ELSE <<"U", "n", "k", "n", "o", "w", "n">>

\* The tool did not do what was asked of it.
ToolFailed(call) == call.fails \/ call.name = "other"

\* run_chat, lines 131-162: the number of tool calls processed before
\* json.loads raises on the arguments of one (all of them if none does).
RECURSIVE Processed(_)
Processed(calls) ==
    IF calls = <<>> \/ ~calls[1].args_ok THEN 0
    ELSE 1 + Processed(Tail(calls))

\* Every tool call is executed and answered twice.
ToolMsgsTwice(calls, by) ==
    [j \in 1..(2 * Processed(calls)) |->
        LET c == ((j - 1) % Processed(calls)) + 1
        IN  Msg("tool", FunctionResponse(calls[c]), by, c, calls[c].name, 0)]

\* run_chat, lines 157-162: the tool messages appended to the conversation
ToolMsgs(calls, by) ==
    [j \in 1..Processed(calls) |->
        Msg("tool", FunctionResponse(calls[j]), by, j, calls[j].name, 0)]

(***************************************************************************)
(* A handler invocation (on_transcript, on_end_of_turn,                    *)
(* on_eager_end_of_turn) from its first await on.                          *)
(*   pc: "clear"   awaiting ws.send_text of the clear frame                *)
(*       "engine1" awaiting the first completion call of run_chat          *)
(*       "engine2" awaiting the completion call that follows the tools     *)
(*       "tts"     awaiting ws.send_text of a media frame                  *)
(*       "done"    returned     "raised"  left by an exception             *)
(***************************************************************************)
NewHandler(k, kind, text, pc) ==
    [k |-> k, kind |-> kind, text |-> text, pc |-> pc, idx |-> 0,
     engine |-> 0, tools |-> 0, tool_failed |-> FALSE,
     tts |-> 0, said |-> <<>>, ret |-> "none", stream |-> "none"]

(***************************************************************************)
(* LatencyTracker (tools/latency.py).  Time is read in milliseconds.        *)
(***************************************************************************)
Stages == {"stt", "llm"}

\* __init__ (lines 20-24), with the clock at 0 and no call made yet
NewTracker ==
    [measurements |-> <<>>, active_measurements |-> {}, now |-> 0,
     started |-> <<>>, ended |-> <<>>]

\* line 28: f"{stage}_{int(time.time() * 1000)}"
MeasurementId(stage, now) == <<stage, now>>

\* lines 12-13: end_time and duration_ms of a measurement not ended (None)
NoTime == 0 - 1

\* lines 29-33
LatencyMeasurement(id, stage, now) ==
    [id |-> id, stage |-> stage, start_time |-> now, end_time |-> NoTime,
     duration_ms |-> NoTime]

\* start_measurement (lines 26-35): the tracker after the call; the id it
\* returns is appended to started.
start_measurement(t, stage) ==
    LET measurement_id == MeasurementId(stage, t.now)
        measurement == LatencyMeasurement(measurement_id, stage, t.now)
    IN  [t EXCEPT
            !.active_measurements =
                { m \in @ : m.id # measurement_id } \cup {measurement},
            !.started = Append(@, measurement_id)]

\* line 39: 'measurement_id not in self.active_measurements'
IsActive(t, measurement_id) == \E m \in t.active_measurements : m.id = measurement_id

\* end_measurement (lines 37-55): the tracker after the call; the call and
\* whether it returned None are appended to ended.
end_measurement(t, measurement_id) ==
    IF ~IsActive(t, measurement_id)
    THEN [t EXCEPT !.ended = Append(@, [id |-> measurement_id, none |-> TRUE])]
    ELSE LET m == CHOOSE x \in t.active_measurements : x.id = measurement_id
             measurement == [m EXCEPT !.end_time = t.now,
                                      !.duration_ms = t.now - m.start_time]
         IN  [t EXCEPT
                 !.active_measurements = @ \ {m},
                 !.measurements = Append(@, measurement),
                 !.ended = Append(@, [id |-> measurement_id, none |-> FALSE])]

\* get_pipeline_summary (lines 73-101): the stages it reports and the count,
\* min_ms and max_ms of each
Durations(ms, stage) ==
    { ms[j].duration_ms : j \in { x \in 1..Len(ms) : ms[x].stage = stage } }
get_pipeline_summary(ms) ==
    IF ms = <<>> THEN [error |-> TRUE, stages |-> {}, by_stage |-> <<>>]
    ELSE LET present == { ms[j].stage : j \in 1..Len(ms) }
         IN  [error |-> FALSE,
              stages |-> present,
              by_stage |-> [stage \in present |->
                  [count  |-> Cardinality({ j \in 1..Len(ms) : ms[j].stage = stage }),
                   min_ms |-> CHOOSE d \in Durations(ms, stage) :
                                  \A e \in Durations(ms, stage) : d <= e,
                   max_ms |-> CHOOSE d \in Durations(ms, stage) :
                                  \A e \in Durations(ms, stage) : d >= e]]]

Cost(failed) == IF failed THEN 1 ELSE 0

(***************************************************************************)
(* The environment: what it may still deliver.  The audio scenario feeds   *)
(* media_stream with transport events; the turn scenario feeds one session *)
(* with recognizer events.  faults counts the failures the environment may *)
(* still inject: a send or finish() of the recognizer raising, a failing   *)
(* connect, a completion call raising, a synthesis stream failing, a       *)
(* malformed transport message, the loss of the transport.                 *)
(***************************************************************************)
AudioScenario ==
    [start |-> MaxStart, stop |-> MaxStart, media |-> MaxMedia, other |-> 0,
     rec |-> 0, resumed |-> 0, tools |-> 0, chunks |-> 0, faults |-> MaxFaults, calls |-> 0]
TurnScenario ==
    [start |-> 1, stop |-> 0, media |-> 0, other |-> 0,
     rec |-> MaxRecEvents, resumed |-> 0, tools |-> 1, chunks |-> MaxChunks,
     faults |-> MaxFaults, calls |-> 0]
MixedScenario ==
    [start |-> 1, stop |-> 1, media |-> 1, other |-> 1,
     rec |-> 1, resumed |-> 1, tools |-> 0, chunks |-> 1, faults |-> MaxFaults, calls |-> 0]
Scenarios == {AudioScenario, TurnScenario, MixedScenario}

\* The budget after one event of kind ev and f injected failures.
Spend(r, ev, f) == [r EXCEPT ![ev] = @ - 1, !.faults = @ - f]

\* The budget allows the synthesis stream to yield this run.
RunAllowed(run) ==
    remaining.chunks >= RunChunks(run) /\ remaining.faults >= Cost(RunFails(run))

\* The budget after the run.
AfterRun(r, run) ==
    [r EXCEPT !.chunks = @ - RunChunks(run), !.faults = @ - Cost(RunFails(run))]

\* State after websocket.accept() and lines 43-45 of main.py.
Init ==
    /\ ms_pc = "recv"
    /\ buffer = <<>>
    /\ empty_byte_received = FALSE
    /\ transcriber = None
    /\ ws_open = TRUE
    /\ tr = <<>>
    /\ conns = <<>>
    /\ conversation = <<>>
    /\ hs = <<>>
    /\ greet = 0
    /\ api_pc = "off"
    /\ api_log = <<>>
    /\ remaining \in Scenarios
    /\ lastEvent = "none"
    /\ phase = "connected"
    /\ nmedia = 0
    /\ received = <<>>
    /\ sa_bytes = <<>>
    /\ sa_calls = 0
    /\ ws_out = <<>>
    /\ dispatched = <<>>
    /\ rxlog = <<>>
    /\ tracker = NewTracker

(***************************************************************************)
(* media_stream (main.py:37-111)                                           *)
(***************************************************************************)
\* The receive loop is suspended in websocket.iter_text() and a message is there.
Receiving == api_pc = "off" /\ ms_pc = "recv" /\ ws_open

\* 'if transcriber:' (lines 80, 97, 109)
HasTranscriber(x) == x # None

\* A flush only above the threshold.
ShouldFlushAbove(buf, flag) == NumBytes(buf) > BUFFER_SIZE \/ flag

\* line 90: 'if len(buffer) >= BUFFER_SIZE or empty_byte_received'
ShouldFlush(buf, flag) == NumBytes(buf) >= BUFFER_SIZE \/ flag

\* The buffer is not reset after a flush.
FlushedBufferKept(buf) == buf

\* line 92: the buffer after a flush of buf
FlushedBuffer(buf) == <<>>

\* lines 97-99 and 109-111: close the transcriber if there is one
CloseCurrent(trs, cur, res) ==
    IF HasTranscriber(cur) THEN [trs EXCEPT ![cur] = deepgram_close(trs[cur], res)]
    ELSE trs

\* lines 97-99 and 109-111, on the connections
CloseCurrentConns(trs, cur, c, res) ==
    IF HasTranscriber(cur) THEN CloseConns(trs[cur], c, res) ELSE c

\* The closed transcriber is kept after 'stop'.
StoppedTranscriberKept(cur) == cur

\* line 99: 'transcriber = None'
StoppedTranscriber(cur) == None

\* finish() is invoked by the close of the current transcriber
Finishes(trs, cur) == HasTranscriber(cur) /\ CloseGuard(trs[cur])

\* A failing outcome is drawn only where the code meets it.
FinishOutcome(trs, cur, res) == res = "ok" \/ Finishes(trs, cur)

\* The greeting's failure ends the receive loop.
AfterGreetingFatal(status) ==
    IF status = "await" THEN "greeting" ELSE IF status = "false" THEN "returned" ELSE "recv"

\* line 77: 'await tts_provider.get_audio_from_text(...)', its result unused:
\* where media_stream is after a run of the greeting's synthesis
AfterGreeting(status) == IF status = "await" THEN "greeting" ELSE "recv"

\* case "connected" (log only), case "mark" (pass)
MsOther(ev) ==
    /\ UNCHANGED tracker
    /\ Receiving
    /\ remaining.other > 0
    /\ remaining' = Spend(remaining, "other", 0)
    /\ lastEvent' = ev
    /\ UNCHANGED phase
    /\ UNCHANGED <<msVars, ws_open, objVars, coVars, apiVars, audVars, turnLog>>

\* case "start" (lines 55-77): build the provider, the engine and the
\* transcriber, connect it, and begin the greeting.  o is what
\* deepgram_connect meets, run what the greeting's stream yields first.
MsStart(o, run) ==
    /\ UNCHANGED tracker
    /\ Receiving
    /\ remaining.start > 0
    /\ lastEvent' = "start"
    /\ conversation' = Append(conversation, <<SystemMsg>>)
    /\ LET k  == Len(tr) + 1
           cs == deepgram_connect(k, NewTranscriber, conns, o)
           trs == Append(tr, cs.t)
           p  == TtsPull(0, 0, run, ws_open)
       IN  IF cs.raised
           THEN \* the exception leaves the loop: except, then finally, where
                \* deepgram_close finds the transcriber not started
                /\ run = <<"end">>
                /\ remaining.faults >= 1
                /\ remaining' = Spend(remaining, "start", 1)
                /\ tr' = CloseCurrent(trs, k, "ok")
                /\ conns' = CloseCurrentConns(trs, k, cs.c, "ok")
                /\ transcriber' = None
                /\ ms_pc' = "returned"
                /\ phase' = "closed"
                /\ UNCHANGED <<greet, ws_out>>
           ELSE /\ RunAllowed(run)
                /\ remaining' = Spend(AfterRun(remaining, run), "start", 0)
                /\ tr' = trs
                /\ conns' = cs.c
                /\ transcriber' = k
                /\ phase' = "active"
                /\ ws_out' = ws_out \o p.frames
                /\ greet' = p.idx
                /\ ms_pc' = AfterGreeting(p.status)
    /\ UNCHANGED <<buffer, empty_byte_received, ws_open, hs, apiVars, audVars,
                   dispatched, rxlog>>

\* The greeting's get_audio_from_text resumes from ws.send_text (line 77).
GreetingStep(run) ==
    /\ UNCHANGED tracker
    /\ api_pc = "off"
    /\ ms_pc = "greeting"
    /\ RunAllowed(run)
    /\ remaining' = AfterRun(remaining, run)
    /\ LET p == TtsPull(0, greet, run, ws_open)
       IN  /\ ws_out' = ws_out \o p.frames
           /\ greet' = p.idx
           /\ ms_pc' = AfterGreeting(p.status)
    /\ UNCHANGED <<buffer, empty_byte_received, transcriber, ws_open, objVars, hs,
                   apiVars, lastEvent, phase, audVars, dispatched, rxlog>>

\* case "media" (lines 79-93); n is the length of the decoded payload, res
\* what the connection's send does.
MsMedia(n, res) ==
    /\ UNCHANGED tracker
    /\ Receiving
    /\ remaining.media > 0
    /\ lastEvent' = "media"
    /\ UNCHANGED phase
    /\ IF HasTranscriber(transcriber)
       THEN LET payload_mulaw == Payload(nmedia + 1, n)
                buf  == buffer \o payload_mulaw
                flag == empty_byte_received \/ payload_mulaw = <<>>
            IN  /\ nmedia' = nmedia + 1
                /\ received' = received \o payload_mulaw
                /\ IF ShouldFlush(buf, flag)
                   THEN /\ res = "raise" => SendGuard(tr[transcriber]) /\ remaining.faults >= 1
                        /\ remaining' = Spend(remaining, "media", Cost(res = "raise"))
                        /\ conns' = send_audio(tr[transcriber], conns, buf, res)
                        /\ sa_bytes' = sa_bytes \o buf
                        /\ sa_calls' = sa_calls + 1
                        /\ buffer' = FlushedBuffer(buf)
                        /\ empty_byte_received' = FALSE
                   ELSE /\ res = "ok"
                        /\ remaining' = Spend(remaining, "media", 0)
                        /\ buffer' = buf
                        /\ empty_byte_received' = flag
                        /\ UNCHANGED <<conns, sa_bytes, sa_calls>>
       ELSE /\ res = "ok"
            /\ remaining' = Spend(remaining, "media", 0)
            /\ UNCHANGED <<buffer, empty_byte_received, conns, audVars>>
    /\ UNCHANGED <<ms_pc, transcriber, ws_open, tr, conversation, coVars, apiVars,
                   turnLog>>

\* case "stop" (lines 95-99); res is what finish() does.
MsStop(res) ==
    /\ UNCHANGED tracker
    /\ Receiving
    /\ remaining.stop > 0
    /\ FinishOutcome(tr, transcriber, res)
    /\ remaining.faults >= Cost(res = "raise")
    /\ remaining' = Spend(remaining, "stop", Cost(res = "raise"))
    /\ lastEvent' = "stop"
    /\ phase' = "stopped"
    /\ tr' = CloseCurrent(tr, transcriber, res)
    /\ conns' = CloseCurrentConns(tr, transcriber, conns, res)
    /\ transcriber' = StoppedTranscriber(transcriber)
    /\ UNCHANGED <<ms_pc, buffer, empty_byte_received, ws_open, conversation, coVars,
                   apiVars, audVars, turnLog>>

\* The transport connection is lost (the caller hangs up, the network fails).
TransportLost ==
    /\ UNCHANGED tracker
    /\ api_pc = "off"
    /\ ws_open
    /\ ms_pc # "returned"
    /\ remaining.faults >= 1
    /\ remaining' = [remaining EXCEPT !.faults = @ - 1]
    /\ ws_open' = FALSE
    /\ UNCHANGED <<msVars, objVars, coVars, apiVars, lastEvent, phase, audVars, turnLog>>

\* The loop ends: iter_text() stops on the disconnect ("disconnect"), or a
\* message makes json.loads, a key lookup or b64decode raise ("error", line
\* 105).  Either way the finally block runs (lines 107-111).
MsExit(why, res) ==
    /\ UNCHANGED tracker
    /\ api_pc = "off"
    /\ ms_pc = "recv"
    /\ ws_open = (why = "error")
    /\ FinishOutcome(tr, transcriber, res)
    /\ remaining.faults >= Cost(why = "error") + Cost(res = "raise")
    /\ remaining' = [remaining EXCEPT !.faults = @ - Cost(why = "error") - Cost(res = "raise")]
    /\ lastEvent' = why
    /\ phase' = "closed"
    /\ tr' = CloseCurrent(tr, transcriber, res)
    /\ conns' = CloseCurrentConns(tr, transcriber, conns, res)
    /\ transcriber' = None
    /\ ms_pc' = "returned"
    /\ UNCHANGED <<buffer, empty_byte_received, ws_open, conversation, coVars, apiVars,
                   audVars, turnLog>>

(***************************************************************************)
(* Recognizer events and their handlers (deepgram.py:78-130).  An event is *)
(* delivered on a connection that is listening, to the handlers of the     *)
(* transcriber that registered them; the action is the handler up to its   *)
(* first await.                                                            *)
(***************************************************************************)
Delivering(c) ==
    /\ api_pc = "off"
    /\ remaining.rec > 0
    /\ c \in 1..Len(conns)
    /\ conns[c].listening

RecEvent(c, type, final, text) ==
    [conn |-> c, type |-> type, is_final |-> final, text |-> text]

\* run_chat, line 113, and the record of the invocation
RunChatCalled(k, by, message) ==
    /\ conversation' = [conversation EXCEPT ![k] = Append(@, UserMsg(message, by))]
    /\ dispatched' = Append(dispatched, [k |-> k, by |-> by, text |-> message])

\* Empty segments are collected too.
CollectedAll(ts, sentence) == Append(ts, sentence)

\* on_transcript, line 90: the turn buffer after a final segment
Collected(ts, sentence) == IF Len(sentence) > 0 THEN Append(ts, sentence) ELSE ts

\* on_transcript, line 92
TurnComplete(ts, sentence) == Len(ts) > 0 /\ EndsWithPunct(sentence)

\* A turn needs two segments.
HasTurnOffByOne(ts) == Len(ts) > 1

\* on_end_of_turn (107) and on_eager_end_of_turn (119): 'if transcripts and len(transcripts) > 0'
HasTurn(ts) == Len(ts) > 0

\* on_transcript (lines 78-100), up to 'await ws.send_text' of the clear frame
OnTranscript(c, is_final, sentence) ==
    /\ UNCHANGED tracker
    /\ Delivering(c)
    /\ remaining' = Spend(remaining, "rec", 0)
    /\ rxlog' = Append(rxlog, RecEvent(c, "Transcript", is_final, sentence))
    /\ LET k  == conns[c].owner
           ts == Collected(tr[k].transcripts, sentence)
           by == Len(hs) + 1
       IN  IF is_final
           THEN /\ tr' = [tr EXCEPT ![k].transcripts = ts]
                /\ IF TurnComplete(ts, sentence)
                   THEN IF ws_open
                        THEN /\ ws_out' = Append(ws_out, ClearFrame(by))
                             /\ hs' = Append(hs, NewHandler(k, "Transcript", Join(ts), "clear"))
                        ELSE \* ws.send_text raises out of the handler
                             /\ hs' = Append(hs, NewHandler(k, "Transcript", Join(ts), "raised"))
                             /\ UNCHANGED ws_out
                   ELSE UNCHANGED <<hs, ws_out>>
           ELSE UNCHANGED <<tr, hs, ws_out>>
    /\ UNCHANGED <<msVars, ws_open, conns, conversation, greet, apiVars, lastEvent, phase,
                   audVars, dispatched>>

\* on_transcript resumes from the send of the clear frame: run_chat (line 99)
OnTranscriptDispatch(i) ==
    /\ UNCHANGED tracker
    /\ i \in 1..Len(hs)
    /\ hs[i].pc = "clear"
    /\ hs' = [hs EXCEPT ![i].pc = "engine1"]
    /\ RunChatCalled(hs[i].k, i, hs[i].text)
    /\ UNCHANGED <<msVars, ws_open, tr, conns, greet, apiVars, remaining, lastEvent, phase,
                   audVars, ws_out, rxlog>>

\* on_end_of_turn (102-112) and on_eager_end_of_turn (114-125), up to the
\* first await of run_chat
OnEndOfTurn(c, type) ==
    /\ UNCHANGED tracker
    /\ Delivering(c)
    /\ remaining' = Spend(remaining, "rec", 0)
    /\ rxlog' = Append(rxlog, RecEvent(c, type, FALSE, <<>>))
    /\ LET k  == conns[c].owner
           ts == tr[k].transcripts
           by == Len(hs) + 1
       IN  IF HasTurn(ts)
           THEN /\ hs' = Append(hs, NewHandler(k, type, Join(ts), "engine1"))
                /\ RunChatCalled(k, by, Join(ts))
           ELSE UNCHANGED <<hs, conversation, dispatched>>
    /\ UNCHANGED <<msVars, ws_open, tr, conns, greet, apiVars, lastEvent, phase, audVars,
                   ws_out>>

\* on_turn_resumed (127-130): a print
OnTurnResumed(c) ==
    /\ UNCHANGED tracker
    /\ api_pc = "off"
    /\ remaining.resumed > 0
    /\ c \in 1..Len(conns)
    /\ conns[c].listening
    /\ remaining' = Spend(remaining, "resumed", 0)
    /\ rxlog' = Append(rxlog, RecEvent(c, "TurnResumed", FALSE, <<>>))
    /\ UNCHANGED <<msVars, ws_open, objVars, coVars, apiVars, lastEvent, phase, audVars,
                   ws_out, dispatched>>

(***************************************************************************)
(* run_chat (openai_async.py:112-179) inside a handler invocation          *)
(***************************************************************************)
\* run_chat line 179 and what follows it: get_audio_from_text(text), and when
\* it returns, the return of run_chat and 'transcripts.clear()' of the handler.
Speak(i, h, text, idx, run) ==
    LET p == TtsPull(i, idx, run, ws_open)
    IN  /\ RunAllowed(run)
        /\ remaining' = AfterRun(remaining, run)
        /\ ws_out' = ws_out \o p.frames
        /\ IF p.status = "await"
           THEN /\ hs' = [hs EXCEPT ![i] = [h EXCEPT !.pc = "tts", !.idx = p.idx,
                                                     !.said = text,
                                                     !.stream = StreamAfter(run)]]
                /\ UNCHANGED tr
           ELSE /\ hs' = [hs EXCEPT ![i] = [h EXCEPT !.pc = "done", !.idx = p.idx,
                                                     !.said = text, !.ret = p.status,
                                                     !.stream = StreamAfter(run)]]
                /\ tr' = [tr EXCEPT ![h.k].transcripts = <<>>]

\* The first completion call returns text (lines 171-179).
EngineReplies(i, content, run) ==
    /\ UNCHANGED tracker
    /\ i \in 1..Len(hs)
    /\ hs[i].pc = "engine1"
    /\ conversation' = [conversation EXCEPT
                            ![hs[i].k] = Append(@, AssistantMsg(content, i))]
    /\ Speak(i, [hs[i] EXCEPT !.engine = 1, !.tts = 1], content, 0, run)
    /\ UNCHANGED <<msVars, ws_open, conns, greet, apiVars, lastEvent, phase, audVars,
                   dispatched, rxlog>>

\* The first completion call returns tool calls (lines 126-168): the tools
\* run without a suspension (the calendar coroutines never await), up to the
\* second completion call or to json.loads raising.
EngineCallsTools(i, calls) ==
    /\ UNCHANGED tracker
    /\ i \in 1..Len(hs)
    /\ hs[i].pc = "engine1"
    /\ remaining.tools > 0
    /\ remaining' = Spend(remaining, "tools", 0)
    /\ conversation' = [conversation EXCEPT
                            ![hs[i].k] = Append(@, ToolCallsMsg(calls, i)) \o ToolMsgs(calls, i)]
    /\ hs' = [hs EXCEPT ![i] = [@ EXCEPT
                  !.engine = 1,
                  !.tools = Processed(calls),
                  !.tool_failed = \E j \in 1..Processed(calls) : ToolFailed(calls[j]),
                  !.pc = IF Processed(calls) = Len(calls) THEN "engine2" ELSE "raised"]]
    /\ UNCHANGED <<msVars, ws_open, tr, conns, greet, apiVars, lastEvent, phase,
                   audVars, turnLog>>

\* A completion call raises: run_chat has no handler for it, the exception
\* leaves run_chat and the handler.
EngineRaises(i) ==
    /\ UNCHANGED tracker
    /\ i \in 1..Len(hs)
    /\ hs[i].pc \in {"engine1", "engine2"}
    /\ remaining.faults >= 1
    /\ remaining' = [remaining EXCEPT !.faults = @ - 1]
    /\ hs' = [hs EXCEPT ![i] = [@ EXCEPT !.engine = @ + 1, !.pc = "raised"]]
    /\ UNCHANGED <<msVars, ws_open, objVars, greet, apiVars, lastEvent, phase, audVars, turnLog>>

\* The second completion call returns text (lines 165-170, 176-179).
EngineRepliesAfterTools(i, content, run) ==
    /\ UNCHANGED tracker
    /\ i \in 1..Len(hs)
    /\ hs[i].pc = "engine2"
    /\ Speak(i, [hs[i] EXCEPT !.engine = 2, !.tts = 1], content, 0, run)
    /\ UNCHANGED <<msVars, ws_open, conns, conversation, greet, apiVars, lastEvent, phase,
                   audVars, dispatched, rxlog>>

\* get_audio_from_text resumes from ws.send_text.
SpeakStep(i, run) ==
    /\ UNCHANGED tracker
    /\ i \in 1..Len(hs)
    /\ hs[i].pc = "tts"
    /\ Speak(i, hs[i], hs[i].said, hs[i].idx, run)
    /\ UNCHANGED <<msVars, ws_open, conns, conversation, greet, apiVars, lastEvent, phase,
                   audVars, dispatched, rxlog>>

Handlers == 1..(MaxRecEvents + 1)
Conns    == 1..(MaxStart + 1)

Next ==
    \/ \E ev \in {"connected", "mark"} : MsOther(ev)
    \/ \E o \in {"ok", "already", "fail_create", "fail_start"}, run \in PullRuns :
          MsStart(o, run)
    \/ \E run \in PullRuns : GreetingStep(run)
    \/ \E n \in PayloadLens, res \in {"ok", "raise"} : MsMedia(n, res)
    \/ \E res \in {"ok", "raise"} : MsStop(res)
    \/ TransportLost
    \/ \E why \in {"disconnect", "error"}, res \in {"ok", "raise"} : MsExit(why, res)
    \/ \E c \in Conns, e \in Transcripts : OnTranscript(c, e.is_final, e.sentence)
    \/ \E i \in Handlers : OnTranscriptDispatch(i)
    \/ \E c \in Conns, type \in {"EndOfTurn", "EagerEndOfTurn"} : OnEndOfTurn(c, type)
    \/ \E c \in Conns : OnTurnResumed(c)
    \/ \E i \in Handlers, content \in Replies, run \in PullRuns : EngineReplies(i, content, run)
    \/ \E i \in Handlers, calls \in ToolCallSeqs : EngineCallsTools(i, calls)
    \/ \E i \in Handlers : EngineRaises(i)
    \/ \E i \in Handlers, content \in Replies, run \in PullRuns :
          EngineRepliesAfterTools(i, content, run)
    \/ \E i \in Handlers, run \in PullRuns : SpeakStep(i, run)

Spec == Init /\ [][Next]_vars

(***************************************************************************)
(* The transcriber API scenario: the methods of one DeepgramTranscriber    *)
(* called in any order, as its contract (send_audio before the connect     *)
(* completes or after the close, a second close) speaks of them.  A call   *)
(* made while deepgram_connect is suspended in the start of the connection *)
(* comes from another coroutine.                                           *)
(***************************************************************************)
ApiScenario ==
    [start |-> 0, stop |-> 0, media |-> 0, other |-> 0, rec |-> 0, resumed |-> 0,
     tools |-> 0, chunks |-> 0, faults |-> MaxFaults, calls |-> MaxCalls]

InitAPI ==
    /\ ms_pc = "returned"
    /\ buffer = <<>>
    /\ empty_byte_received = FALSE
    /\ transcriber = None
    /\ ws_open = TRUE
    /\ tr = <<NewTranscriber>>
    /\ conns = <<>>
    /\ conversation = <<>>
    /\ hs = <<>>
    /\ greet = 0
    /\ api_pc = "idle"
    /\ api_log = <<>>
    /\ remaining = ApiScenario
    /\ lastEvent = "none"
    /\ phase = "connected"
    /\ nmedia = 0
    /\ received = <<>>
    /\ sa_bytes = <<>>
    /\ sa_calls = 0
    /\ ws_out = <<>>
    /\ dispatched = <<>>
    /\ rxlog = <<>>
    /\ tracker = NewTracker

ApiCall(name, f) ==
    /\ api_pc # "off"
    /\ remaining.calls > 0
    /\ remaining.faults >= f
    /\ remaining' = Spend(remaining, "calls", f)
    /\ api_log' = Append(api_log, name)

\* deepgram_connect is called and runs to the start of the connection.
ApiConnect(o) ==
    /\ UNCHANGED tracker
    /\ api_pc = "idle"
    /\ o \in {"ok", "fail_create"}
    /\ o = "fail_create" => ~ConnectReturnsEarly(tr[1])
    /\ ApiCall("deepgram_connect", Cost(o = "fail_create"))
    /\ IF ConnectReturnsEarly(tr[1])
       THEN UNCHANGED <<tr, conns, api_pc>>
       ELSE LET cc == ConnectCreate(1, tr[1], conns, o)
            IN  /\ tr' = [tr EXCEPT ![1] = cc.t]
                /\ conns' = cc.c
                /\ api_pc' = IF cc.raised THEN "idle" ELSE "connecting"
    /\ UNCHANGED <<msVars, ws_open, conversation, coVars, lastEvent, phase, audVars, turnLog>>

\* The start of the connection ends, and deepgram_connect with it.
ApiConnected(o) ==
    /\ UNCHANGED tracker
    /\ api_pc = "connecting"
    /\ o \in {"ok", "already", "fail_start"}
    /\ remaining.faults >= Cost(o = "fail_start")
    /\ remaining' = [remaining EXCEPT !.faults = @ - Cost(o = "fail_start")]
    /\ LET cs == ConnectStart(tr[1], conns, o)
       IN  /\ tr' = [tr EXCEPT ![1] = cs.t]
           /\ conns' = cs.c
    /\ api_pc' = "idle"
    /\ api_log' = Append(api_log, "connected")
    /\ UNCHANGED <<msVars, ws_open, conversation, coVars, lastEvent, phase, audVars,
                   turnLog>>

\* send_audio is called with a chunk of n bytes.
ApiSendAudio(n, res) ==
    /\ UNCHANGED tracker
    /\ res = "raise" => SendGuard(tr[1])
    /\ ApiCall("send_audio", Cost(res = "raise"))
    /\ LET audio_bytes == Payload(sa_calls + 1, n)
       IN  /\ conns' = send_audio(tr[1], conns, audio_bytes, res)
           /\ sa_bytes' = sa_bytes \o audio_bytes
           /\ sa_calls' = sa_calls + 1
    /\ UNCHANGED <<msVars, ws_open, tr, conversation, coVars, api_pc, lastEvent, phase,
                   nmedia, received, turnLog>>

\* deepgram_close is called.
ApiClose(res) ==
    /\ UNCHANGED tracker
    /\ res = "raise" => CloseGuard(tr[1])
    /\ ApiCall("deepgram_close", Cost(res = "raise"))
    /\ tr' = [tr EXCEPT ![1] = deepgram_close(tr[1], res)]
    /\ conns' = CloseConns(tr[1], conns, res)
    /\ UNCHANGED <<msVars, ws_open, conversation, coVars, api_pc, lastEvent, phase, audVars,
                   turnLog>>

NextAPI ==
    \/ \E o \in {"ok", "fail_create"} : ApiConnect(o)
    \/ \E o \in {"ok", "already", "fail_start"} : ApiConnected(o)
    \/ \E n \in {0, 160}, res \in {"ok", "raise"} : ApiSendAudio(n, res)
    \/ \E res \in {"ok", "raise"} : ApiClose(res)

SpecAPI == InitAPI /\ [][NextAPI]_vars

(***************************************************************************)
(* One session under fairness.  The event loop resumes a coroutine whose   *)
(* awaited operation has completed: a send to the transport returns or     *)
(* raises, a completion call returns or raises, the synthesis stream       *)
(* yields or ends, and iter_text() ends once the transport is lost.  What  *)
(* the transport and the recognizer deliver is up to them: no fairness.    *)
(***************************************************************************)
LiveScenario ==
    [start |-> 1, stop |-> 1, media |-> 1, other |-> 1,
     rec |-> 1, resumed |-> 1, tools |-> 1, chunks |-> 1, faults |-> MaxFaults, calls |-> 0]

InitLive ==
    /\ ms_pc = "recv"
    /\ buffer = <<>>
    /\ empty_byte_received = FALSE
    /\ transcriber = None
    /\ ws_open = TRUE
    /\ tr = <<>>
    /\ conns = <<>>
    /\ conversation = <<>>
    /\ hs = <<>>
    /\ greet = 0
    /\ api_pc = "off"
    /\ api_log = <<>>
    /\ remaining = LiveScenario
    /\ lastEvent = "none"
    /\ phase = "connected"
    /\ nmedia = 0
    /\ received = <<>>
    /\ sa_bytes = <<>>
    /\ sa_calls = 0
    /\ ws_out = <<>>
    /\ dispatched = <<>>
    /\ rxlog = <<>>
    /\ tracker = NewTracker

\* The completion call a run_chat invocation awaits returns or raises.
EngineAnswers ==
    \/ \E i \in Handlers, content \in Replies, run \in PullRuns : EngineReplies(i, content, run)
    \/ \E i \in Handlers, calls \in ToolCallSeqs : EngineCallsTools(i, calls)
    \/ \E i \in Handlers : EngineRaises(i)
    \/ \E i \in Handlers, content \in Replies, run \in PullRuns :
          EngineRepliesAfterTools(i, content, run)

Fairness ==
    /\ WF_vars(\E run \in PullRuns : GreetingStep(run))
    /\ WF_vars(\E i \in Handlers : OnTranscriptDispatch(i))
    /\ WF_vars(\E i \in Handlers, run \in PullRuns : SpeakStep(i, run))
    /\ WF_vars(EngineAnswers)
    /\ WF_vars(\E res \in {"ok", "raise"} : MsExit("disconnect", res))

SpecLive == InitLive /\ [][Next]_vars /\ Fairness

(***************************************************************************)
(* The latency tracker scenario: start_measurement and end_measurement     *)
(* called in any order on one LatencyTracker while its clock advances.     *)
(***************************************************************************)
InitLT ==
    /\ ms_pc = "returned"
    /\ buffer = <<>>
    /\ empty_byte_received = FALSE
    /\ transcriber = None
    /\ ws_open = TRUE
    /\ tr = <<>>
    /\ conns = <<>>
    /\ conversation = <<>>
    /\ hs = <<>>
    /\ greet = 0
    /\ api_pc = "tracker"
    /\ api_log = <<>>
    /\ remaining = [ApiScenario EXCEPT !.faults = 0, !.calls = MaxLtCalls]
    /\ lastEvent = "none"
    /\ phase = "connected"
    /\ nmedia = 0
    /\ received = <<>>
    /\ sa_bytes = <<>>
    /\ sa_calls = 0
    /\ ws_out = <<>>
    /\ dispatched = <<>>
    /\ rxlog = <<>>
    /\ tracker = NewTracker

sessionVars ==
    <<ms_pc, buffer, empty_byte_received, transcriber, ws_open, tr, conns, conversation,
      hs, greet, api_pc, api_log, lastEvent, phase, nmedia, received, sa_bytes, sa_calls,
      ws_out, dispatched, rxlog>>

\* The ids a caller may pass to end_measurement: those start_measurement
\* returned, and one it never returned.
KnownIds(t) == { t.started[j] : j \in 1..Len(t.started) }
UnknownId == <<"none", 0>>

\* The clock advances by a millisecond.
LtTick ==
    /\ api_pc = "tracker"
    /\ tracker.now < MaxClock
    /\ tracker' = [tracker EXCEPT !.now = @ + 1]
    /\ UNCHANGED <<sessionVars, remaining>>

LtStart(stage) ==
    /\ api_pc = "tracker"
    /\ remaining.calls > 0
    /\ remaining' = Spend(remaining, "calls", 0)
    /\ tracker' = start_measurement(tracker, stage)
    /\ UNCHANGED sessionVars

LtEnd(measurement_id) ==
    /\ api_pc = "tracker"
    /\ remaining.calls > 0
    /\ remaining' = Spend(remaining, "calls", 0)
    /\ tracker' = end_measurement(tracker, measurement_id)
    /\ UNCHANGED sessionVars

NextLT ==
    \/ LtTick
    \/ \E stage \in Stages : LtStart(stage)
    \/ \E id \in KnownIds(tracker) \cup {UnknownId} : LtEnd(id)

SpecLT == InitLT /\ [][NextLT]_vars

(***************************************************************************)
(* Properties                                                              *)
(***************************************************************************)
\* A step of media_stream that handles a 'media' event.
MediaStep == remaining'.media = remaining.media - 1

\* The length of the payload a media step decoded.
Decoded == NumBytes(received') - NumBytes(received)

RECURSIVE Spaced(_)
\* Texts joined by single spaces.
Spaced(ts) ==
    IF Len(ts) = 0 THEN <<>>
    ELSE IF Len(ts) = 1 THEN ts[1]
    ELSE Spaced(SubSeq(ts, 1, Len(ts) - 1)) \o <<" ">> \o ts[Len(ts)]

Terminal(text) == Len(text) > 0 /\ text[Len(text)] \in {".", "!", "?"}

\* The final, non-empty segments of the recognizer events so far.
IsSegment(e) == e.type = "Transcript" /\ e.is_final /\ Len(e.text) > 0
SegmentTexts(log) ==
    LET segs == SelectSeq(log, IsSegment) IN [j \in 1..Len(segs) |-> segs[j].text]

AllFinished == \A i \in 1..Len(hs) : hs[i].pc \in {"done", "raised"}

\* C1: once a 'stop' event has been handled, every decoded payload byte has
\* been passed to send_audio (the bytes left in the buffer are forwarded).
C1_StopForwardsAll ==
    lastEvent = "stop" => NumBytes(sa_bytes) = NumBytes(received)

\* C2: no media frame of the response to a turn is sent after a media frame
\* of the response to a newer turn.
C2_NoStaleFrame ==
    \A i \in 1..Len(ws_out), j \in 1..Len(ws_out) :
        (/\ i < j
         /\ ws_out[i].event = "media" /\ ws_out[j].event = "media"
         /\ ws_out[i].by >= 1 /\ ws_out[j].by >= 1)
        => ws_out[i].by <= ws_out[j].by

\* C3: when the recognizer has delivered non-empty final segments s1..sn of
\* which only sn ends in '.', '!' or '?', and the handlers have finished (the
\* transport being up), exactly one turn was dispatched, its text is s1..sn
\* joined by single spaces, and the turn buffer is empty.
C3_Shape ==
    /\ Len(rxlog) >= 1
    /\ \A i \in 1..Len(rxlog) :
          /\ IsSegment(rxlog[i])
          /\ Terminal(rxlog[i].text) <=> (i = Len(rxlog))
C3_PunctuatedTurn ==
    (C3_Shape /\ AllFinished /\ ws_open /\ Len(hs) >= 1)
    => /\ Len(dispatched) = 1
       /\ dispatched[1].text = Spaced(SegmentTexts(rxlog))
       /\ \A k \in 1..Len(tr) : tr[k].transcripts = <<>>

\* C4: when the recognizer has delivered final segments of which none ends in
\* sentence-terminal punctuation, at least one of them non-empty, and then one
\* EndOfTurn, exactly one turn has been dispatched and it carries the buffered
\* text.
C4_Shape ==
    /\ Len(rxlog) >= 2
    /\ rxlog[Len(rxlog)].type = "EndOfTurn"
    /\ \A i \in 1..(Len(rxlog) - 1) :
          /\ rxlog[i].type = "Transcript"
          /\ rxlog[i].is_final => ~Terminal(rxlog[i].text)
    /\ SegmentTexts(rxlog) # <<>>
C4_SilenceDispatchesOnce ==
    C4_Shape => /\ Len(dispatched) = 1
                /\ dispatched[1].text = Spaced(SegmentTexts(rxlog))
C4_Witness ==
    C4_Shape /\ Len(dispatched) = 1 /\ dispatched[1].text = <<"a">>

\* C5: a run_chat invocation in which a tool failed has ended with exactly
\* one utterance passed to synthesis.
C5_ToolFailureOneUtterance ==
    \A i \in 1..Len(hs) :
        (hs[i].pc \in {"done", "raised"} /\ hs[i].tool_failed) => hs[i].tts = 1

\* C6: finish() of a recognizer connection is invoked at most once, however
\* often deepgram_close is called.
C6_FinishAtMostOnce ==
    \A c \in 1..Len(conns) : conns[c].finish <= 1

\* C7: a 'media' event handled before any 'start' or after a 'stop' changes
\* neither the buffer nor the empty-frame flag, sends nothing to a recognizer
\* and leaves the receive loop running.
C7_MediaOutsideActiveIgnored ==
    [][(MediaStep /\ phase \in {"connected", "stopped"})
        => /\ buffer' = buffer
           /\ empty_byte_received' = empty_byte_received
           /\ conns' = conns
           /\ sa_calls' = sa_calls
           /\ ms_pc' = "recv"]_vars
C7_Witness ==
    lastEvent = "media" /\ phase = "stopped" /\ buffer # <<>> /\ remaining.media = 0

\* C8: send_audio called before deepgram_connect has completed or after
\* deepgram_close sends nothing and leaves the transcriber as it is.
LifecycleCalls == SelectSeq(api_log, LAMBDA x : x # "send_audio")
AfterClose ==
    Len(LifecycleCalls) > 0 /\ LifecycleCalls[Len(LifecycleCalls)] = "deepgram_close"
C8_SendOutsideOpenIsNoOp ==
    [][(api_log' = Append(api_log, "send_audio") /\ (~tr[1].started \/ AfterClose))
        => conns' = conns /\ tr' = tr]_vars

\* C9: while the session is active a media event forwards the buffer iff,
\* with the payload appended, it holds at least BUFFER_SIZE bytes or the
\* payload is empty; after it the buffer holds fewer than BUFFER_SIZE bytes
\* and the empty-frame flag is false.
C9_FlushStep ==
    (MediaStep /\ phase = "active")
    => /\ sa_calls' \in {sa_calls, sa_calls + 1}
       /\ (sa_calls' = sa_calls + 1)
             <=> (NumBytes(buffer) + Decoded >= 640 \/ Decoded = 0)
       /\ NumBytes(buffer') < 640
       /\ ~empty_byte_received'
C9_FlushIffThreshold ==
    [][C9_FlushStep]_vars /\ [](NumBytes(buffer) < 640 /\ ~empty_byte_received)
C9_Witness ==
    lastEvent = "media" /\ sa_calls = 1 /\ NumBytes(sa_bytes) = 640
        /\ NumBytes(buffer) = 480

\* C10: the chunks passed to send_audio, concatenated, are a prefix of the
\* decoded payloads in receipt order.
C10_SentIsPrefixOfReceived == IsPrefix(sa_bytes, received)
C10_Witness ==
    sa_calls >= 2 /\ Len(sa_bytes) >= 3 /\ buffer # <<>>

(***************************************************************************)
(* Turn handlers running side by side                                      *)
(***************************************************************************)
\* A run_chat invocation is in flight: from the append of the user message to
\* the return of get_audio_from_text.
InFlight(h) == h.pc \in {"engine1", "engine2", "tts"}

AllDone == \A i \in 1..Len(hs) : hs[i].pc = "done"

BuffersEmpty == \A k \in 1..Len(tr) : tr[k].transcripts = <<>>

DispatchedTexts == [j \in 1..Len(dispatched) |-> dispatched[j].text]

\* C11: once every handler has returned and the turn buffer is empty, the
\* dispatched turns taken together are the final segments received, each one
\* once and in order: none is dispatched twice, none is lost.
C11_EachSegmentOnce ==
    (Len(hs) >= 1 /\ AllDone /\ BuffersEmpty)
    => Spaced(DispatchedTexts) = Spaced(SegmentTexts(rxlog))

\* C12: at most one run_chat invocation is in flight at any moment.
C12_OneDispatchInFlight ==
    Cardinality({ i \in 1..Len(hs) : InFlight(hs[i]) }) <= 1

\* C13: for every turn dispatched to run_chat exactly one clear frame of that
\* turn has been sent to the transport.
C13_ClearBeforeDispatch ==
    \A j \in 1..Len(dispatched) :
        Cardinality({ p \in 1..Len(ws_out) : ws_out[p] = ClearFrame(dispatched[j].by) }) = 1

\* C14: when the only run_chat invocation of a session has completed, the
\* last entry of the conversation is an assistant message (one without tool
\* calls) whose content is the text handed to synthesis.
C14_LastIsSpokenAnswer ==
    (Len(hs) = 1 /\ hs[1].pc = "done")
    => LET conv == conversation[hs[1].k]
       IN  conv[Len(conv)] = AssistantMsg(hs[1].said, 1)

\* C15: run_chat never raises to its caller: a handler is left by an
\* exception only before it has called run_chat.
C15_RunChatNeverRaises ==
    \A i \in 1..Len(hs) : hs[i].pc = "raised" => hs[i].engine = 0

\* C16: the entries one run_chat invocation appends to the conversation are
\* contiguous: no entry of another invocation lies between two of them.
C16_AppendsNotInterleaved ==
    \A k \in 1..Len(conversation) :
        \A a \in 1..Len(conversation[k]), b \in 1..Len(conversation[k]),
           c \in 1..Len(conversation[k]) :
            (a < b /\ b < c /\ conversation[k][a].by = conversation[k][c].by)
            => conversation[k][b].by = conversation[k][a].by

\* C17: get_audio_from_text never raises and its result tells what became of
\* the stream: False when the backend failed, True only when the stream was
\* consumed to its end.
C17_SynthesisReportsOutcome ==
    \A i \in 1..Len(hs) :
        hs[i].tts = 1
        => /\ hs[i].pc \in {"tts", "done"}
           /\ hs[i].pc = "tts" => hs[i].stream = "open" /\ hs[i].ret = "none"
           /\ hs[i].pc = "done"
                => /\ hs[i].ret \in {"true", "false"}
                   /\ hs[i].stream = "failed" => hs[i].ret = "false"
                   /\ hs[i].ret = "true" => hs[i].stream = "ended"
\* the backend fails at a chunk in the middle of the stream
C17_Witness ==
    \E i \in 1..Len(hs) :
        hs[i].pc = "done" /\ hs[i].stream = "failed" /\ hs[i].ret = "false" /\ hs[i].idx >= 1

\* C18: when the boundary of a newer turn fires (its clear frame is sent)
\* while the utterance of an older turn is streaming, no further media frame
\* of the older utterance is sent.
C18_BoundaryCancelsSynthesis ==
    \A a \in 1..Len(ws_out), b \in 1..Len(ws_out), c \in 1..Len(ws_out) :
        (/\ a < b /\ b < c
         /\ ws_out[a].event = "media" /\ ws_out[a].by >= 1
         /\ ws_out[b].event = "clear" /\ ws_out[b].by > ws_out[a].by)
        => ~(ws_out[c].event = "media" /\ ws_out[c].by = ws_out[a].by)

\* C19: while the greeting is being synthesized and the transport has a
\* 'media' event for the session, the session can handle it.
C19_GreetingDoesNotBlock ==
    (ms_pc = "greeting" /\ ws_open /\ api_pc = "off" /\ remaining.media > 0)
    => ENABLED (\E n \in PayloadLens : MsMedia(n, "ok"))

\* C20: when a transcriber has been closed, the final text its turn buffer
\* holds has been dispatched as a turn.
C20_CloseFlushesTurn ==
    \A k \in 1..Len(tr) :
        (tr[k].closed /\ tr[k].transcripts # <<>>)
        => \E j \in 1..Len(dispatched) :
              dispatched[j].k = k /\ dispatched[j].text = Join(tr[k].transcripts)

(***************************************************************************)
(* Keepalive, failures and lifetimes                                       *)
(***************************************************************************)
WasDispatched(i) == \E j \in 1..Len(dispatched) : dispatched[j].by = i
HasAudio(i) == \E p \in 1..Len(ws_out) : ws_out[p].event = "media" /\ ws_out[p].by = i
Ended(h) == h.pc \in {"done", "raised"}

\* C21: a recognizer connection that is open is eventually sent a keepalive
\* message, unless it is closed first.
C21_KeepaliveWhileOpen ==
    \A c \in Conns :
        []((c <= Len(conns) /\ conns[c].listening)
            => <>(c <= Len(conns)
                    /\ (~conns[c].listening \/ conns[c].keepalives >= 1)))

\* C22: every turn dispatched to run_chat is eventually followed by a media
\* frame of its utterance, or by a synthesis that consumed its whole stream.
C22_DispatchLeadsToAudio ==
    \A i \in Handlers :
        [](WasDispatched(i)
            => <>(HasAudio(i) \/ (i <= Len(hs) /\ hs[i].ret = "true")))

\* C23: a failure of the engine or of the synthesis backend leaves the
\* receive loop of media_stream where it is (the greeting's failure returns
\* it to iter_text), and a failed send to the transport is followed by the
\* teardown of the session.
EngineFails ==
    \E i \in 1..Len(hs) : hs[i].pc \in {"engine1", "engine2"} /\ hs'[i].pc = "raised"
SynthesisFails ==
    \E i \in 1..Len(hs) : hs[i].stream # "failed" /\ hs'[i].stream = "failed"
GreetingFails ==
    /\ remaining'.faults = remaining.faults - 1
    /\ ws_open' = ws_open /\ hs' = hs
    /\ \/ ms_pc = "greeting"
       \/ remaining'.start = remaining.start - 1 /\ transcriber' # None
SendFailed(h) ==
    \/ h.pc = "raised" /\ h.engine = 0
    \/ h.pc = "done" /\ h.ret = "false" /\ h.stream = "open"
ToolAnswers(i, k) ==
    { j \in 1..Len(conversation[k]) :
        conversation[k][j].role = "tool" /\ conversation[k][j].by = i }
Requested(i, k) ==
    { j \in 1..Len(conversation[k]) :
        conversation[k][j].ntc > 0 /\ conversation[k][j].by = i }
C24_Bounded ==
    \A i \in 1..Len(hs) :
        /\ hs[i].engine <= 2
        /\ Cardinality(Requested(i, hs[i].k)) <= 1
        /\ \A a \in ToolAnswers(i, hs[i].k), b \in ToolAnswers(i, hs[i].k) :
              conversation[hs[i].k][a].tool_call_id = conversation[hs[i].k][b].tool_call_id
              => a = b
        /\ \A a \in ToolAnswers(i, hs[i].k) :
              \E r \in Requested(i, hs[i].k) :
                  r < a /\ conversation[hs[i].k][a].tool_call_id <= conversation[hs[i].k][r].ntc
C24_BoundedToolRoundTrip ==
    /\ []C24_Bounded
    /\ []<>AllFinished
C24_Witness ==
    \E i \in 1..Len(hs) :
        hs[i].pc = "done" /\ hs[i].engine = 2 /\ hs[i].tools = 1 /\ hs[i].tts = 1

\* C25: once every id start_measurement returned has been passed to
\* end_measurement as often as it was returned, get_pipeline_summary reports
\* for every stage as many measurements as were started for it.
TimesStarted(id) ==
    Cardinality({ j \in 1..Len(tracker.started) : tracker.started[j] = id })
TimesEnded(id) ==
    Cardinality({ j \in 1..Len(tracker.ended) : tracker.ended[j].id = id })
StartedOf(stage) ==
    Cardinality({ j \in 1..Len(tracker.started) : tracker.started[j][1] = stage })
ReportedCount(stage) ==
    LET summary == get_pipeline_summary(tracker.measurements)
    IN  IF stage \in summary.stages THEN summary.by_stage[stage].count ELSE 0
C25_CountMatchesStarts ==
    (\A id \in KnownIds(tracker) : TimesEnded(id) >= TimesStarted(id))
    => \A stage \in Stages : ReportedCount(stage) = StartedOf(stage)

\* C26: when the send of a flushed chunk raises, the chunk reaches no
\* recognizer, the buffer and the flag are reset all the same, and
\* media_stream goes on receiving; no byte is sent to a recognizer twice.
RECURSIVE Frames(_)
Frames(bs) == IF bs = <<>> THEN {} ELSE {bs[1].frame} \cup Frames(Tail(bs))
SendRaised == MediaStep /\ remaining'.faults = remaining.faults - 1
C26_FailedSendDropsChunk ==
    /\ [][SendRaised
            => /\ \A c \in 1..Len(conns) : conns'[c].sent = conns[c].sent
               /\ sa_calls' = sa_calls + 1
               /\ buffer' = <<>> /\ ~empty_byte_received'
               /\ ms_pc' = "recv"]_vars
    /\ [](\A c \in 1..Len(conns) :
            /\ Cardinality(Frames(conns[c].sent)) = Len(conns[c].sent)
            /\ \A d \in 1..Len(conns) : c # d =>
                  Frames(conns[c].sent) \cap Frames(conns[d].sent) = {})
\* a chunk was dropped and a later one forwarded
C26_Witness ==
    /\ lastEvent = "media" /\ ms_pc = "recv"
    /\ \E c \in 1..Len(conns) :
          /\ conns[c].sends = 2
          /\ conns[c].sent # <<>>
          /\ sa_bytes # <<>> /\ sa_bytes[1].frame \notin Frames(conns[c].sent)

\* C27: run_chat is invoked with non-empty text only, and a recognizer event
\* that finds the turn buffer empty and adds nothing to it dispatches nothing
\* and sends no clear frame.
EventStep == Len(rxlog') = Len(rxlog) + 1
NewEvent == rxlog'[Len(rxlog')]
C27_NoEmptyTurn ==
    /\ [](\A j \in 1..Len(dispatched) : Len(dispatched[j].text) > 0)
    /\ [][(/\ EventStep
            /\ tr[conns[NewEvent.conn].owner].transcripts = <<>>
            /\ ~IsSegment(NewEvent))
           => /\ dispatched' = dispatched
              /\ ws_out' = ws_out
              /\ hs' = hs]_vars
C27_Witness ==
    /\ Len(rxlog) = 2
    /\ rxlog[1].type = "Transcript" /\ rxlog[1].is_final /\ rxlog[1].text = <<>>
    /\ rxlog[2].type = "EagerEndOfTurn"
    /\ dispatched = <<>> /\ hs = <<>>

\* C28: every media frame sent carries the audio of a non-empty chunk, and
\* the frames of one utterance are sent in the order of the stream.
C28_FramesAreAudioChunks ==
    /\ \A p \in 1..Len(ws_out) : ws_out[p].event = "media" => ws_out[p].audio = "some"
    /\ \A p \in 1..Len(ws_out), q \in 1..Len(ws_out) :
          (p < q /\ ws_out[p].event = "media" /\ ws_out[q].event = "media"
                 /\ ws_out[p].by = ws_out[q].by)
          => ws_out[p].seq < ws_out[q].seq

\* C29: at most one recognizer connection is open at any time, and when
\* media_stream has returned finish() has been called on every connection
\* that is open.
C29_ConnectionsBoundToSession ==
    /\ Cardinality({ c \in 1..Len(conns) : conns[c].listening }) <= 1
    /\ ms_pc = "returned"
         => \A c \in 1..Len(conns) : conns[c].listening => conns[c].finish >= 1

\* C30: once a 'stop' event has been handled the ingress buffer is empty (no
\* byte received before it is left for a later recognizer).
C30_StopEmptiesBuffer == lastEvent = "stop" => buffer = <<>>

(***************************************************************************)
(* Properties: the conversation handed to the engine.                      *)
(***************************************************************************)
\* The tool calls of the message at position j of a conversation are each
\* answered, in order, by the tool messages that follow it.
ToolCallsAnswered(conv, j) ==
    /\ j + conv[j].ntc <= Len(conv)
    /\ \A m \in 1..conv[j].ntc :
          /\ conv[j + m].role = "tool"
          /\ conv[j + m].tool_call_id = m
    /\ (j + conv[j].ntc < Len(conv)) => conv[j + conv[j].ntc + 1].role # "tool"

\* A completion call on conversation k is pending.
EnginePending(k) ==
    \E i \in 1..Len(hs) : hs[i].k = k /\ hs[i].pc \in {"engine1", "engine2"}

\* The user message at position j is followed by an assistant message of the
\* invocation that appended it.
UserAnswered(conv, j) ==
    \E a \in (j + 1)..Len(conv) : conv[a].role = "assistant" /\ conv[a].by = conv[j].by

\* C31: the conversation stays well-formed whatever the run_chat invocations
\* did, aborted ones included: while a completion call is pending every
\* assistant message that carries tool calls is followed by exactly one tool
\* message per tool call (matching tool_call_id), and once an invocation has
\* ended (returned or aborted) its user message is followed by an assistant
\* message.
C31_ConversationWellFormed ==
    \A k \in 1..Len(conversation) :
        /\ EnginePending(k)
            => \A j \in 1..Len(conversation[k]) :
                  conversation[k][j].ntc > 0 => ToolCallsAnswered(conversation[k], j)
        /\ \A j \in 1..Len(conversation[k]) :
              (/\ conversation[k][j].role = "user"
               /\ conversation[k][j].by \in 1..Len(hs)
               /\ Ended(hs[conversation[k][j].by]))
              => UserAnswered(conversation[k], j)

====
